---- MODULE Spec2Model ----
(***************************************************************************)
(* A model of micro-semantic-cache: the SemanticCache class (src/cache.ts) *)
(* and the vector utilities it calls (src/vector.ts).                      *)
(*                                                                         *)
(* The JavaScript Map `entries` is a sequence of entry records in          *)
(* insertion order (Map iteration order): set on a stored key replaces the *)
(* record in place, set on a new key appends, delete removes.              *)
(* Date.now() is the variable `now`, a clock that never runs backwards.    *)
(* Numbers: timestamps and vector components are integers; a similarity is *)
(* an exact fraction <<n, d>> in lowest terms with d > 0.  The vectors the *)
(* model draws all have an integer Euclidean length, so Math.sqrt is exact *)
(* on them and the IEEE division dot / magnitude is the correctly rounded  *)
(* fraction: comparing two similarities, or a similarity with a threshold, *)
(* gives the same answer on the doubles as on the fractions.               *)
(***************************************************************************)
EXTENDS Integers, Sequences, FiniteSets, TLC

VARIABLES entries, stats, now, pending, last, written, run, recency, evicted,
          calledAt

vars == <<entries, stats, now, pending, last, written, run, recency, evicted,
          calledAt>>

(***************************************************************************)
(* Bounds of the exploration.                                              *)
(***************************************************************************)
MaxTime == 3
MaxCount == 1
MaxSimilarHits == 2
MaxPending == 2
MaxQueries == 1
MaxNumber == 100

(***************************************************************************)
(* Configuration (the constructor's config argument).                      *)
(***************************************************************************)
maxSize == 2
ttl == 2
embeddingDimension == 2
similarityThreshold == <<17, 20>>

Keys == {"", "a", "b"}
Values == {"v1", "v2"}
NULL == "null"
NoKey == "#none"
NoEmbedding == <<>>
NoThreshold == <<>>
Error == <<>>
Infinity == MaxTime + 1

(***************************************************************************)
(* Exact fractions.                                                        *)
(***************************************************************************)
Abs(x) == IF x < 0 THEN -x ELSE x

RECURSIVE Gcd(_, _)
Gcd(a, b) == IF b = 0 THEN a ELSE Gcd(b, a % b)

Frac(n, d) == LET g == Gcd(Abs(n), d) IN <<n \div g, d \div g>>

FracLess(x, y) == x[1] * y[2] < y[1] * x[2]

FracGeq(x, y) == ~FracLess(x, y)

(***************************************************************************)
(* Numbers.  A JavaScript number is a double: finite up to                 *)
(* Number.MAX_VALUE, beyond which a result is Infinity or -Infinity, and   *)
(* NaN where no value is defined (Infinity * 0, Infinity - Infinity,       *)
(* Infinity / Infinity, any operation on NaN).  Here the finite numbers    *)
(* are the integers of -MaxNumber..MaxNumber, MaxNumber standing for       *)
(* Number.MAX_VALUE, and the quotient of two of them is an exact fraction; *)
(* rounding is not modelled.  A quotient that is NaN is the fraction       *)
(* <<0, 0>>, one that is infinite <<1, 0>> or <<-1, 0>>.                    *)
(***************************************************************************)
PosInf == MaxNumber + 1
NaN == MaxNumber + 2
FracNaN == <<0, 0>>

IsInf(x) == x = PosInf \/ x = -PosInf

Round(x) == IF x > MaxNumber THEN PosInf ELSE IF x < -MaxNumber THEN -PosInf ELSE x

Times(x, y) ==
    IF x = NaN \/ y = NaN THEN NaN
    ELSE IF IsInf(x) \/ IsInf(y)
         THEN IF x = 0 \/ y = 0 THEN NaN
              ELSE IF (x > 0) = (y > 0) THEN PosInf ELSE -PosInf
         ELSE Round(x * y)

Plus(x, y) ==
    IF x = NaN \/ y = NaN THEN NaN
    ELSE IF IsInf(x) THEN (IF IsInf(y) /\ y # x THEN NaN ELSE x)
    ELSE IF IsInf(y) THEN y
    ELSE Round(x + y)

Divide(x, y) ==
    IF x = NaN \/ y = NaN THEN FracNaN
    ELSE IF IsInf(y) THEN (IF IsInf(x) THEN FracNaN ELSE <<0, 1>>)
    ELSE IF IsInf(x) THEN (IF (x > 0) = (y > 0) THEN <<1, 0>> ELSE <<-1, 0>>)
    ELSE Frac(x, y)

Sqrt(n) == IF n = NaN \/ n = PosInf THEN n ELSE CHOOSE r \in 0..n : r * r = n

(***************************************************************************)
(* The Map<string, CacheEntry> operations the cache uses.                  *)
(***************************************************************************)
KeysOf(es) == {es[i].key : i \in 1..Len(es)}

MapHas(es, k) == \E i \in 1..Len(es) : es[i].key = k

IndexOf(es, k) == CHOOSE i \in 1..Len(es) : es[i].key = k

MapGet(es, k) == es[IndexOf(es, k)]

MapSet(es, e) ==
    IF MapHas(es, e.key)
    THEN [es EXCEPT ![IndexOf(es, e.key)] = e]
    ELSE Append(es, e)

MapDelete(es, k) ==
    IF MapHas(es, k)
    THEN LET i == IndexOf(es, k)
         IN SubSeq(es, 1, i - 1) \o SubSeq(es, i + 1, Len(es))
    ELSE es

(***************************************************************************)
(* entry.expiresAt < Date.now(): the expiry test of get, has and           *)
(* findKNearest.                                                           *)
(***************************************************************************)
IsExpiredByTimestamp(e, t) == e.timestamp < t

IsExpiredLate(e, t) == e.expiresAt + 1 < t

IsExpired(e, t) == e.expiresAt < t

(***************************************************************************)
(* cosineSimilarity(a, b): Error stands for the thrown dimension error.    *)
(* SumProducts(a, b, i) is the value of the accumulator `x += a[j] * b[j]` *)
(* after the first i rounds of the loop.  Each intermediate value is bound *)
(* once, as an element of a one-element set, so that it is computed once.  *)
(***************************************************************************)
RECURSIVE SumProducts(_, _, _)
SumProducts(a, b, i) ==
    IF i = 0 THEN 0
    ELSE CHOOSE sum \in {Plus(before, product) :
                            before \in {SumProducts(a, b, i - 1)},
                            product \in {Times(a[i], b[i])}} : TRUE

Shortest(a, b) == IF Len(a) < Len(b) THEN Len(a) ELSE Len(b)

Quotient(dotProduct, magnitude) ==
    IF magnitude = 0 THEN <<0, 1>> ELSE Divide(dotProduct, magnitude)

cosineSimilarityTruncating(a, b) ==
    CHOOSE similarity \in
        {Quotient(dotProduct, magnitude) :
            dotProduct \in {SumProducts(a, b, Shortest(a, b))},
            magnitude \in {Times(rootA, rootB) :
                              rootA \in {Sqrt(magnitudeA) :
                                           magnitudeA \in {SumProducts(a, a, Len(a))}},
                              rootB \in {Sqrt(magnitudeB) :
                                           magnitudeB \in {SumProducts(b, b, Len(b))}}}} :
        TRUE

cosineSimilarity(a, b) ==
    IF Len(a) # Len(b) THEN Error
    ELSE CHOOSE similarity \in
            {Quotient(dotProduct, magnitude) :
                dotProduct \in {SumProducts(a, b, Len(a))},
                magnitude \in {Times(rootA, rootB) :
                                  rootA \in {Sqrt(magnitudeA) :
                                               magnitudeA \in {SumProducts(a, a, Len(a))}},
                                  rootB \in {Sqrt(magnitudeB) :
                                               magnitudeB \in {SumProducts(b, b, Len(a))}}}} :
            TRUE

(***************************************************************************)
(* The vectors that occur in the specifications below, as stored           *)
(* embeddings or as queries, and the value of cosineSimilarity for each    *)
(* pair of them, computed once: findKNearest reads its similarities here.  *)
(***************************************************************************)
Vectors ==
    {<<>>, <<0>>, <<1>>, <<0, 0>>, <<1, 0>>, <<0, 1>>, <<-1, 0>>, <<3, 4>>,
     <<20, 0>>, <<0, 20>>, <<0, 0, 0>>, <<1, 0, 0>>, <<0, 1, 0>>}

Similarities == [a \in Vectors |-> [b \in Vectors |-> cosineSimilarity(a, b)]]

(***************************************************************************)
(* results.sort((a, b) => b.similarity - a.similarity): Array.prototype    *)
(* .sort is stable, so an element goes behind every element that does not  *)
(* compare after it.                                                       *)
(***************************************************************************)
RECURSIVE InsertSortedUnstable(_, _)
InsertSortedUnstable(sorted, x) ==
    IF sorted = <<>> THEN <<x>>
    ELSE IF ~FracLess(x.similarity, Head(sorted).similarity)
         THEN <<x>> \o sorted
         ELSE <<Head(sorted)>> \o InsertSortedUnstable(Tail(sorted), x)

RECURSIVE InsertSorted(_, _)
InsertSorted(sorted, x) ==
    IF sorted = <<>> THEN <<x>>
    ELSE IF FracLess(Head(sorted).similarity, x.similarity)
         THEN <<x>> \o sorted
         ELSE <<Head(sorted)>> \o InsertSorted(Tail(sorted), x)

RECURSIVE SortBySimilarity(_)
SortBySimilarity(rs) ==
    IF rs = <<>> THEN <<>>
    ELSE InsertSorted(SortBySimilarity(SubSeq(rs, 1, Len(rs) - 1)), rs[Len(rs)])

(***************************************************************************)
(* Array.prototype.slice(0, k): a negative k counts from the end.          *)
(***************************************************************************)
SliceToInclusive(s, k) == SubSeq(s, 1, IF k + 1 > Len(s) THEN Len(s) ELSE k + 1)

SliceTo(s, k) ==
    LET end == IF k < 0
               THEN (IF Len(s) + k < 0 THEN 0 ELSE Len(s) + k)
               ELSE (IF k > Len(s) THEN Len(s) ELSE k)
    IN SubSeq(s, 1, end)

(***************************************************************************)
(* findKNearest(queryEmbedding, entries, k, threshold) at time t.          *)
(***************************************************************************)
AdmitsAll(similarity, threshold) == TRUE

Admits(similarity, threshold) ==
    similarity # FracNaN /\ FracGeq(similarity, threshold)

RECURSIVE ScanEntries(_, _, _, _, _, _)
ScanEntries(queryEmbedding, es, threshold, t, i, results) ==
    IF i > Len(es) THEN [threw |-> FALSE, results |-> results]
    ELSE IF IsExpired(es[i], t)
         THEN ScanEntries(queryEmbedding, es, threshold, t, i + 1, results)
         ELSE LET similarity == Similarities[queryEmbedding][es[i].embedding]
              IN IF similarity = Error THEN [threw |-> TRUE, results |-> <<>>]
                 ELSE IF Admits(similarity, threshold)
                      THEN ScanEntries(queryEmbedding, es, threshold, t, i + 1,
                               Append(results, [key |-> es[i].key,
                                                value |-> es[i].value,
                                                similarity |-> similarity]))
                      ELSE ScanEntries(queryEmbedding, es, threshold, t, i + 1, results)

findKNearestChecksFirst(queryEmbedding, es, k, threshold, t) ==
    LET scan == ScanEntries(queryEmbedding, es, threshold, t, 1, <<>>)
    IN IF scan.threw \/ Len(queryEmbedding) # embeddingDimension
       THEN [threw |-> TRUE, results |-> <<>>]
       ELSE [threw |-> FALSE, results |-> SliceTo(SortBySimilarity(scan.results), k)]

findKNearest(queryEmbedding, es, k, threshold, t) ==
    LET scan == ScanEntries(queryEmbedding, es, threshold, t, 1, <<>>)
    IN IF scan.threw THEN scan
       ELSE [threw |-> FALSE, results |-> SliceTo(SortBySimilarity(scan.results), k)]

(***************************************************************************)
(* evictOldest(): the scan for the smallest timestamp, then the deletion   *)
(* guarded by `if (oldestKey)`, a truthiness test of a string.             *)
(***************************************************************************)
RECURSIVE OldestScanLastTie(_, _, _, _)
OldestScanLastTie(es, i, oldestKey, oldestTimestamp) ==
    IF i > Len(es) THEN oldestKey
    ELSE IF es[i].timestamp <= oldestTimestamp
         THEN OldestScanLastTie(es, i + 1, es[i].key, es[i].timestamp)
         ELSE OldestScanLastTie(es, i + 1, oldestKey, oldestTimestamp)

OldestScanInsertionOrder(es, i, oldestKey, oldestTimestamp) ==
    IF es = <<>> THEN oldestKey ELSE es[1].key

RECURSIVE OldestScan(_, _, _, _)
OldestScan(es, i, oldestKey, oldestTimestamp) ==
    IF i > Len(es) THEN oldestKey
    ELSE IF es[i].timestamp < oldestTimestamp
         THEN OldestScan(es, i + 1, es[i].key, es[i].timestamp)
         ELSE OldestScan(es, i + 1, oldestKey, oldestTimestamp)

Truthy(k) == k # NoKey /\ k # ""

evictOldest(es) ==
    LET oldestKey == OldestScan(es, 1, NoKey, Infinity)
    IN IF Truthy(oldestKey) THEN MapDelete(es, oldestKey) ELSE es

(***************************************************************************)
(* config.embedFn: the caller's text-to-vector function, here a fixed      *)
(* table: the vector it returns, or the one its promise resolves to.  The  *)
(* call fails (throws, or returns a promise that rejects) on the text "x", *)
(* and yields a vector of length 3 for the text "w".                       *)
(***************************************************************************)
embedFn(text) ==
    CASE text = ""  -> <<0, 0>>
      [] text = "a" -> <<1, 0>>
      [] text = "b" -> <<3, 4>>
      [] text = "w" -> <<1, 0, 0>>
      [] OTHER      -> <<0, 1>>

embedFnThrows(text) == text = "x"

(***************************************************************************)
(* History kept for the properties, never read by the operations.          *)
(*   pending  is state of the program, not history: the calls that are     *)
(*            suspended at `await result`, each with its arguments and,    *)
(*            for the properties, the time of the call, whether clear()    *)
(*            ran while it was suspended and the other values that sets of *)
(*            the same key, called later, have stored before it;           *)
(*   last     the call just made: its arguments (getSimilar: the query, k, *)
(*            the threshold and the query's vector, with the query text as *)
(*            key; clear: the size and the three counters it found), what  *)
(*            it found for its key ("absent", "expired" or "live" by the   *)
(*            code's own test; getSimilar: "embedError", "threw" or        *)
(*            "returned") and what it returned;                            *)
(*   written  for each key, the value and time of the last completed set   *)
(*            that no delete, clear or eviction has undone and whose TTL   *)
(*            has not elapsed;                                             *)
(*   run      the distinct keys set into the cache, with no other call in  *)
(*            between, since it was last empty;                            *)
(*   recency  the stored keys from the least to the most recently used     *)
(*            (set, or read by a successful get or has);                   *)
(*   evicted  what the set just made removed to make room, if anything:    *)
(*            the entry, its position in the store and whether it was the  *)
(*            most recently used one;                                      *)
(*   calledAt the time at which the call just resumed had been called,     *)
(*            followed by its record in pending; empty after any other     *)
(*            step.                                                        *)
(***************************************************************************)
Call(op, key, arg, found, ret) ==
    [op |-> op, key |-> key, arg |-> arg, found |-> found, ret |-> ret]

Found(es, k, t) ==
    IF ~MapHas(es, k) THEN "absent"
    ELSE IF IsExpired(MapGet(es, k), t) THEN "expired" ELSE "live"

NoWrite == [set |-> FALSE, value |-> NULL, at |-> 0]

AllKeys == Keys \cup {"x", "w"}

Remember ==
    written' =
      CASE last'.op = "set" /\ last'.ret = "ok" ->
             [k \in AllKeys |->
                IF k = last'.key
                THEN [set |-> TRUE, value |-> last'.arg[1], at |-> now]
                ELSE IF k \in KeysOf(entries) \ KeysOf(entries')
                     THEN NoWrite
                     ELSE written[k]]
        [] last'.op = "delete" -> [written EXCEPT ![last'.key] = NoWrite]
        [] last'.op = "clear" -> [k \in AllKeys |-> NoWrite]
        [] last'.op = "tick" ->
             [k \in AllKeys |->
                IF written[k].set /\ now' < written[k].at + ttl
                THEN written[k]
                ELSE NoWrite]
        [] OTHER -> written

Touch(seq, k) == SelectSeq(seq, LAMBDA x : x # k) \o <<k>>

Restrict(seq, ks) == SelectSeq(seq, LAMBDA x : x \in ks)

NoRun == [ok |-> FALSE, keys |-> <<>>]
EmptyRun == [ok |-> TRUE, keys |-> <<>>]

History ==
    /\ run' = CASE last'.op = "tick" -> run
                [] last'.op = "set" /\ last'.ret = "ok" ->
                     IF run.ok /\ last'.key \notin {run.keys[i] : i \in 1..Len(run.keys)}
                           /\ Len(run.keys) <= maxSize
                     THEN [run EXCEPT !.keys = Append(@, last'.key)]
                     ELSE NoRun
                [] OTHER -> IF entries' = <<>> THEN EmptyRun ELSE NoRun
    /\ recency' = LET kept == Restrict(recency, KeysOf(entries'))
                  IN IF \/ last'.op = "set" /\ last'.ret = "ok"
                        \/ last'.op = "get" /\ last'.ret # NULL
                        \/ last'.op = "has" /\ last'.ret = TRUE
                     THEN Touch(kept, last'.key)
                     ELSE kept

    /\ evicted' = IF /\ last'.op = "set"
                      /\ last'.ret = "ok"
                      /\ KeysOf(entries) \ KeysOf(entries') # {}
                   THEN LET i == CHOOSE i \in 1..Len(entries) :
                                    entries[i].key \notin KeysOf(entries')
                        IN <<[entry |-> entries[i],
                              index |-> i,
                              mru |-> /\ recency # <<>>
                                      /\ recency[Len(recency)] = entries[i].key]>>
                   ELSE <<>>

NoHistory == UNCHANGED <<run, recency, evicted>>

NoAwait ==
    /\ pending' = IF last'.op = "clear"
                  THEN {[c EXCEPT !.cleared = TRUE] : c \in pending}
                  ELSE pending
    /\ calledAt' = <<>>

(***************************************************************************)
(* constructor                                                             *)
(***************************************************************************)
Init ==
    /\ entries = <<>>
    /\ stats = [hits |-> 0, misses |-> 0, similarHits |-> 0]
    /\ now = 0
    /\ last = Call("new", NoKey, <<>>, "", <<>>)
    /\ written = [k \in AllKeys |-> NoWrite]
    /\ run = EmptyRun
    /\ recency = <<>>
    /\ evicted = <<>>
    /\ pending = {}
    /\ calledAt = <<>>

(***************************************************************************)
(* get(key)                                                                *)
(***************************************************************************)
GetHitIgnoringExpiry(es, k, t) == MapHas(es, k)

GetHit(es, k, t) == MapHas(es, k) /\ ~IsExpired(MapGet(es, k), t)

GetReturn(es, k, t) == IF GetHit(es, k, t) THEN MapGet(es, k).value ELSE NULL

Get(key) ==
    /\ IF GetHit(entries, key, now)
       THEN /\ stats.hits < MaxCount
            /\ stats' = [stats EXCEPT !.hits = @ + 1]
            /\ entries' = entries
       ELSE /\ stats.misses < MaxCount
            /\ stats' = [stats EXCEPT !.misses = @ + 1]
            /\ entries' = MapDelete(entries, key)
    /\ last' = Call("get", key, <<>>, Found(entries, key, now),
                    GetReturn(entries, key, now))
    /\ UNCHANGED now
    /\ Remember

(***************************************************************************)
(* set(key, value, embedding?)                                             *)
(***************************************************************************)
InsertEvictsOnOverwrite(es, entry) ==
    MapSet(IF Len(es) >= maxSize THEN evictOldest(es) ELSE es, entry)

InsertKeepsCreatedAt(es, entry) ==
    IF MapHas(es, entry.key)
    THEN MapSet(es, [entry EXCEPT !.timestamp = MapGet(es, entry.key).timestamp,
                                  !.expiresAt = MapGet(es, entry.key).expiresAt])
    ELSE MapSet(IF Len(es) >= maxSize THEN evictOldest(es) ELSE es, entry)

InsertTreatsExpiredAsNew(es, entry) ==
    MapSet(IF /\ Len(es) >= maxSize
              /\ ~(/\ MapHas(es, entry.key)
                   /\ ~IsExpired(MapGet(es, entry.key), entry.timestamp))
           THEN evictOldest(es)
           ELSE es,
           entry)

Insert(es, entry) ==
    MapSet(IF Len(es) >= maxSize /\ ~MapHas(es, entry.key)
           THEN evictOldest(es)
           ELSE es,
           entry)

(* How the first part of set ends: "error" is the dimension error thrown   *)
(* for a supplied vector of the wrong length, "embedError" the error of    *)
(* embedFn, propagated; "ok" means an embedding vector was obtained.       *)
SetOutcomeUnvalidated(key, embedding) ==
    IF embedding # NoEmbedding THEN "ok"
    ELSE IF embedFnThrows(key) THEN "embedError" ELSE "ok"

SetOutcomeSwallowsEmbedError(key, embedding) ==
    IF embedding # NoEmbedding
    THEN IF Len(embedding) # embeddingDimension THEN "error" ELSE "ok"
    ELSE "ok"

SetOutcome(key, embedding) ==
    IF embedding # NoEmbedding
    THEN IF Len(embedding) # embeddingDimension THEN "error" ELSE "ok"
    ELSE IF embedFnThrows(key) THEN "embedError" ELSE "ok"

Set(key, value, embedding) ==
    /\ IF SetOutcome(key, embedding) # "ok"
       THEN /\ last' = Call("set", key, <<value, embedding>>,
                            Found(entries, key, now), SetOutcome(key, embedding))
            /\ UNCHANGED entries
       ELSE LET embeddingVector == IF embedding # NoEmbedding
                                   THEN embedding
                                   ELSE embedFn(key)
                entry == [key |-> key,
                          value |-> value,
                          embedding |-> embeddingVector,
                          timestamp |-> now,
                          expiresAt |-> now + ttl]
            IN /\ entries' = Insert(entries, entry)
               /\ last' = Call("set", key, <<value, embedding>>,
                               Found(entries, key, now), "ok")
    /\ UNCHANGED <<stats, now>>
    /\ Remember

(***************************************************************************)
(* set(key, value) with an embedFn that returns a promise: the call is     *)
(* suspended at `await result` (SetCall) having touched nothing, and the   *)
(* rest of set, from the construction of the entry to the store, runs in   *)
(* one piece when the promise settles (SetResume), other calls having run  *)
(* in between.                                                             *)
(***************************************************************************)
Overtaken(calls, by) ==
    {[c EXCEPT !.overtaken = IF c.key = by.key /\ c.at < by.at /\ c.value # by.value
                             THEN @ \cup {by.value}
                             ELSE @] : c \in calls}

SetCall(key, value) ==
    /\ Cardinality(pending) < MaxPending
    /\ \A c \in pending : ~(c.key = key /\ c.value = value /\ c.at = now)
    /\ pending' = pending \cup {[key |-> key, value |-> value, at |-> now,
                                 cleared |-> FALSE, overtaken |-> {}]}
    /\ calledAt' = <<>>
    /\ last' = Call("setCall", key, <<value, NoEmbedding>>,
                    Found(entries, key, now), "pending")
    /\ UNCHANGED <<entries, stats, now>>
    /\ Remember

SetResumeStampsCallTime(call) ==
    /\ call \in pending
    /\ pending' = Overtaken(pending \ {call}, call)
    /\ calledAt' = <<call.at, call>>
    /\ IF SetOutcome(call.key, NoEmbedding) # "ok"
       THEN /\ last' = Call("set", call.key, <<call.value, NoEmbedding>>,
                            Found(entries, call.key, now),
                            SetOutcome(call.key, NoEmbedding))
            /\ UNCHANGED entries
       ELSE /\ entries' = Insert(entries, [key |-> call.key,
                                           value |-> call.value,
                                           embedding |-> embedFn(call.key),
                                           timestamp |-> call.at,
                                           expiresAt |-> call.at + ttl])
            /\ last' = Call("set", call.key, <<call.value, NoEmbedding>>,
                            Found(entries, call.key, now), "ok")
    /\ UNCHANGED <<stats, now>>
    /\ Remember

SetResumeCancelledByClear(call) ==
    /\ call \in pending
    /\ pending' = Overtaken(pending \ {call}, call)
    /\ calledAt' = <<call.at, call>>
    /\ IF call.cleared
       THEN /\ last' = Call("set", call.key, <<call.value, NoEmbedding>>,
                            Found(entries, call.key, now), "cancelled")
            /\ UNCHANGED <<entries, stats, now>>
            /\ Remember
       ELSE Set(call.key, call.value, NoEmbedding)

SetResumeKeepsLaterCall(call) ==
    /\ call \in pending
    /\ pending' = Overtaken(pending \ {call}, call)
    /\ calledAt' = <<call.at, call>>
    /\ IF call.overtaken # {}
       THEN /\ last' = Call("set", call.key, <<call.value, NoEmbedding>>,
                            Found(entries, call.key, now), "stale")
            /\ UNCHANGED <<entries, stats, now>>
            /\ Remember
       ELSE Set(call.key, call.value, NoEmbedding)

SetResume(call) ==
    /\ call \in pending
    /\ pending' = Overtaken(pending \ {call}, call)
    /\ calledAt' = <<call.at, call>>
    /\ Set(call.key, call.value, NoEmbedding)

(***************************************************************************)
(* getSimilar(query, k, threshold?)                                        *)
(***************************************************************************)
EffectiveThresholdClamped(threshold) ==
    IF threshold = NoThreshold THEN similarityThreshold
    ELSE IF FracLess(threshold, <<0, 1>>) THEN <<0, 1>>
    ELSE IF FracLess(<<1, 1>>, threshold) THEN <<1, 1>>
    ELSE threshold

EffectiveThreshold(threshold) ==
    IF threshold # NoThreshold THEN threshold ELSE similarityThreshold

GetSimilarWithCountsCalls(text, query, queryEmbedding, k, threshold) ==
    \E found \in {findKNearest(queryEmbedding, entries, k,
                                EffectiveThreshold(threshold), now)} :
       /\ IF found.threw
          THEN /\ last' = Call("getSimilar", text,
                               <<query, k, threshold, queryEmbedding>>, "threw", <<>>)
               /\ UNCHANGED stats
          ELSE /\ stats.similarHits + 1 <= MaxSimilarHits
               /\ stats' = [stats EXCEPT !.similarHits = @ + 1]
               /\ last' = Call("getSimilar", text,
                               <<query, k, threshold, queryEmbedding>>, "returned",
                               found.results)
       /\ UNCHANGED <<entries, now>>
       /\ Remember

GetSimilarWithAssignsCount(text, query, queryEmbedding, k, threshold) ==
    \E found \in {findKNearest(queryEmbedding, entries, k,
                                EffectiveThreshold(threshold), now)} :
       /\ IF found.threw
          THEN /\ last' = Call("getSimilar", text,
                               <<query, k, threshold, queryEmbedding>>, "threw", <<>>)
               /\ UNCHANGED stats
          ELSE /\ Len(found.results) <= MaxSimilarHits
               /\ stats' = [stats EXCEPT !.similarHits =
                                    IF found.results = <<>> THEN @
                                    ELSE Len(found.results)]
               /\ last' = Call("getSimilar", text,
                               <<query, k, threshold, queryEmbedding>>, "returned",
                               found.results)
       /\ UNCHANGED <<entries, now>>
       /\ Remember

GetSimilarWithCountsRequests(text, query, queryEmbedding, k, threshold) ==
    \E found \in {findKNearest(queryEmbedding, entries, k,
                                EffectiveThreshold(threshold), now)} :
       /\ IF found.threw
          THEN /\ last' = Call("getSimilar", text,
                               <<query, k, threshold, queryEmbedding>>, "threw", <<>>)
               /\ UNCHANGED stats
          ELSE /\ stats.similarHits + Len(found.results) <= MaxSimilarHits
               /\ stats' = [stats EXCEPT
                              !.similarHits = @ + Len(found.results),
                              !.hits = IF found.results # <<>> THEN @ + 1 ELSE @,
                              !.misses = IF found.results = <<>> THEN @ + 1 ELSE @]
               /\ last' = Call("getSimilar", text,
                               <<query, k, threshold, queryEmbedding>>, "returned",
                               found.results)
       /\ UNCHANGED <<entries, now>>
       /\ Remember

GetSimilarWith(text, query, queryEmbedding, k, threshold) ==
    \E found \in {findKNearest(queryEmbedding, entries, k,
                                EffectiveThreshold(threshold), now)} :
       /\ IF found.threw
          THEN /\ last' = Call("getSimilar", text,
                               <<query, k, threshold, queryEmbedding>>, "threw", <<>>)
               /\ UNCHANGED stats
          ELSE /\ stats.similarHits + Len(found.results) <= MaxSimilarHits
               /\ stats' = [stats EXCEPT !.similarHits = @ + Len(found.results)]
               /\ last' = Call("getSimilar", text,
                               <<query, k, threshold, queryEmbedding>>, "returned",
                               found.results)
       /\ UNCHANGED <<entries, now>>
       /\ Remember

GetSimilarText(query, k, threshold) ==
    IF embedFnThrows(query)
    THEN /\ last' = Call("getSimilar", query, <<query, k, threshold, <<>>>>,
                         "embedError", <<>>)
         /\ UNCHANGED <<entries, stats, now>>
         /\ Remember
    ELSE GetSimilarWith(query, query, embedFn(query), k, threshold)

GetSimilarVector(query, k, threshold) ==
    GetSimilarWith(NoKey, query, query, k, threshold)

(***************************************************************************)
(* getSimilar(text, k, threshold?) with an embedFn that returns a promise: *)
(* the call is suspended at `await result` (GetSimilarCall) having touched *)
(* nothing, and the rest of getSimilar, the scan of this.entries and the   *)
(* counter update, runs in one piece when the promise settles              *)
(* (GetSimilarResume).  For the properties the suspended call remembers    *)
(* the keys that were stored and live when it was called.                  *)
(***************************************************************************)
GetSimilarCall(query, k, threshold) ==
    /\ Cardinality(pending) < MaxQueries
    /\ \A c \in pending : ~(c.query = query /\ c.k = k /\ c.threshold = threshold
                            /\ c.at = now)
    /\ pending' = pending \cup
          {[query |-> query, k |-> k, threshold |-> threshold, at |-> now,
            cleared |-> FALSE,
            seen |-> {entries[i].key : i \in {j \in 1..Len(entries) :
                                                ~IsExpired(entries[j], now)}}]}
    /\ calledAt' = <<>>
    /\ last' = Call("getSimilarCall", query, <<query, k, threshold, <<>>>>, "",
                    "pending")
    /\ UNCHANGED <<entries, stats, now>>
    /\ Remember

GetSimilarResumeScansAtCallTime(call) ==
    /\ call \in pending
    /\ pending' = pending \ {call}
    /\ calledAt' = <<call.at, call>>
    /\ \E found \in {findKNearest(embedFn(call.query), entries, call.k,
                                   EffectiveThreshold(call.threshold), call.at)} :
          /\ ~found.threw
          /\ stats.similarHits + Len(found.results) <= MaxSimilarHits
          /\ stats' = [stats EXCEPT !.similarHits = @ + Len(found.results)]
          /\ last' = Call("getSimilar", call.query,
                          <<call.query, call.k, call.threshold, embedFn(call.query)>>,
                          "returned", found.results)
    /\ UNCHANGED <<entries, now>>
    /\ Remember

GetSimilarResume(call) ==
    /\ call \in pending
    /\ pending' = pending \ {call}
    /\ calledAt' = <<call.at, call>>
    /\ GetSimilarText(call.query, call.k, call.threshold)

(***************************************************************************)
(* has(key)                                                                *)
(***************************************************************************)
HasCountsMiss(key) ==
    /\ entries' = IF GetHit(entries, key, now) THEN entries
                  ELSE MapDelete(entries, key)
    /\ stats' = IF GetHit(entries, key, now) THEN stats
                ELSE [stats EXCEPT !.misses = @ + 1]
    /\ last' = Call("has", key, <<>>, Found(entries, key, now),
                    GetHit(entries, key, now))
    /\ UNCHANGED now
    /\ Remember

HasLeavesExpired(key) ==
    /\ last' = Call("has", key, <<>>, Found(entries, key, now),
                    GetHit(entries, key, now))
    /\ UNCHANGED <<entries, stats, now>>
    /\ Remember

Has(key) ==
    /\ entries' = IF GetHit(entries, key, now) THEN entries
                  ELSE MapDelete(entries, key)
    /\ last' = Call("has", key, <<>>, Found(entries, key, now),
                    GetHit(entries, key, now))
    /\ UNCHANGED <<stats, now>>
    /\ Remember

(***************************************************************************)
(* delete(key)                                                             *)
(***************************************************************************)
DeleteReportsLive(key) ==
    /\ entries' = MapDelete(entries, key)
    /\ last' = Call("delete", key, <<>>, Found(entries, key, now),
                    GetHit(entries, key, now))
    /\ UNCHANGED <<stats, now>>
    /\ Remember

Delete(key) ==
    /\ entries' = MapDelete(entries, key)
    /\ last' = Call("delete", key, <<>>, Found(entries, key, now),
                    MapHas(entries, key))
    /\ UNCHANGED <<stats, now>>
    /\ Remember

(***************************************************************************)
(* clear()                                                                 *)
(***************************************************************************)
ClearKeepsCounters ==
    /\ entries' = <<>>
    /\ last' = Call("clear", NoKey,
                    <<Len(entries), stats.hits, stats.misses, stats.similarHits>>,
                    "", <<>>)
    /\ UNCHANGED <<stats, now>>
    /\ Remember

Clear ==
    /\ entries' = <<>>
    /\ stats' = [hits |-> 0, misses |-> 0, similarHits |-> 0]
    /\ last' = Call("clear", NoKey,
                    <<Len(entries), stats.hits, stats.misses, stats.similarHits>>,
                    "", <<>>)
    /\ UNCHANGED now
    /\ Remember

(***************************************************************************)
(* stats(): hitRate is the fraction hits / totalRequests, 0 with no        *)
(* request.                                                                *)
(***************************************************************************)
hitRateCountingSimilar(st) ==
    LET totalRequests == st.hits + st.misses + st.similarHits
    IN IF totalRequests > 0 THEN Frac(st.hits, totalRequests) ELSE <<0, 1>>

hitRate(st) ==
    LET totalRequests == st.hits + st.misses
    IN IF totalRequests > 0 THEN Frac(st.hits, totalRequests) ELSE <<0, 1>>

CacheStats(es, st) ==
    [hits |-> st.hits,
     misses |-> st.misses,
     similarHits |-> st.similarHits,
     size |-> Len(es),
     hitRate |-> hitRate(st)]

StatsCountsLive ==
    /\ last' = Call("stats", NoKey, <<>>, "",
                    [CacheStats(entries, stats) EXCEPT
                       !.size = Cardinality({i \in 1..Len(entries) :
                                               ~IsExpired(entries[i], now)})])
    /\ UNCHANGED <<entries, stats, now>>
    /\ Remember

Stats ==
    /\ last' = Call("stats", NoKey, <<>>, "", CacheStats(entries, stats))
    /\ UNCHANGED <<entries, stats, now>>
    /\ Remember

(***************************************************************************)
(* Time passes between two calls.                                          *)
(***************************************************************************)
Tick ==
    /\ now < MaxTime
    /\ now' = now + 1
    /\ last' = Call("tick", NoKey, <<>>, "", <<>>)
    /\ UNCHANGED <<entries, stats>>
    /\ Remember

(***************************************************************************)
(* Spec: the exact-match interface (get, set, has, delete, clear) under a  *)
(* running clock; set is called with no embedding, or with one of the      *)
(* wrong length.                                                           *)
(***************************************************************************)
Next ==
    \/ \E key \in Keys : Get(key) /\ NoHistory /\ NoAwait
    \/ \E key \in Keys, value \in Values, embedding \in {NoEmbedding, <<1, 0, 0>>} :
          Set(key, value, embedding) /\ NoHistory /\ NoAwait
    \/ \E key \in Keys : Has(key) /\ NoHistory /\ NoAwait
    \/ \E key \in Keys : Delete(key) /\ NoHistory /\ NoAwait
    \/ Clear /\ NoHistory /\ NoAwait
    \/ Tick /\ NoHistory /\ NoAwait

Spec == Init /\ [][Next]_vars

(***************************************************************************)
(* SpecHistory: the same interface with one value, recording the run of    *)
(* insertions and the order of use.                                        *)
(***************************************************************************)
NextHistory ==
    \/ \E key \in Keys : Get(key) /\ History /\ NoAwait
    \/ \E key \in Keys : Set(key, "v1", NoEmbedding) /\ History /\ NoAwait
    \/ \E key \in Keys : Has(key) /\ History /\ NoAwait
    \/ \E key \in Keys : Delete(key) /\ History /\ NoAwait
    \/ Clear /\ History /\ NoAwait
    \/ Tick /\ History /\ NoAwait

SpecHistory == Init /\ [][NextHistory]_vars

(***************************************************************************)
(* SpecSim: the similarity interface.  The store is filled by set (two     *)
(* keys, one value, vectors from embedFn), emptied by delete and clear,    *)
(* aged by the clock, and queried by getSimilar with a text query and      *)
(* vector queries, every k of Ks and every threshold of Thresholds.  With  *)
(* embedFn("a") = <<1, 0>> and embedFn("b") = <<3, 4>> the queries rank a  *)
(* over b ("a"), b over a (<<0, 1>>, <<-1, 0>>, the latter with negative   *)
(* similarities) and tie them (<<0, 0>>).                                  *)
(***************************************************************************)
SimKeys == {"a", "b"}
QueryVectors == {<<0, 1>>, <<-1, 0>>, <<0, 0>>}
QueryTexts == {"a"}
Ks == -1..2
Thresholds == {NoThreshold, <<-1, 1>>, <<0, 1>>, <<3, 5>>}

NextSim ==
    \/ \E key \in SimKeys : Set(key, "v1", NoEmbedding) /\ NoHistory /\ NoAwait
    \/ \E query \in QueryTexts, k \in Ks, threshold \in Thresholds :
          GetSimilarText(query, k, threshold) /\ NoHistory /\ NoAwait
    \/ \E query \in QueryVectors, k \in Ks, threshold \in Thresholds :
          GetSimilarVector(query, k, threshold) /\ NoHistory /\ NoAwait
    \/ \E key \in SimKeys : Delete(key) /\ NoHistory /\ NoAwait
    \/ Clear /\ NoHistory /\ NoAwait
    \/ Tick /\ NoHistory /\ NoAwait

SpecSim == Init /\ [][NextSim]_vars

(***************************************************************************)
(* SpecThreshold: getSimilar with the threshold omitted, zero, inside the  *)
(* range of the cosine, at its ends, below -1 and above 1.  The queries    *)
(* "a" and <<-1, 0>> have the similarities 1 and -1 to the entry of "a"    *)
(* and 3/5 and -3/5 to that of "b".                                        *)
(***************************************************************************)
ThresholdQueryVectors == {<<-1, 0>>}
ThresholdKs == {1, 2}
ThresholdsAsked ==
    {NoThreshold, <<-3, 2>>, <<-1, 1>>, <<0, 1>>, <<3, 5>>, <<1, 1>>, <<3, 2>>}

NextThreshold ==
    \/ \E key \in SimKeys : Set(key, "v1", NoEmbedding) /\ NoHistory /\ NoAwait
    \/ \E query \in QueryTexts, k \in ThresholdKs, threshold \in ThresholdsAsked :
          GetSimilarText(query, k, threshold) /\ NoHistory /\ NoAwait
    \/ \E query \in ThresholdQueryVectors, k \in ThresholdKs,
          threshold \in ThresholdsAsked :
          GetSimilarVector(query, k, threshold) /\ NoHistory /\ NoAwait
    \/ \E key \in SimKeys : Delete(key) /\ NoHistory /\ NoAwait
    \/ Tick /\ NoHistory /\ NoAwait

SpecThreshold == Init /\ [][NextThreshold]_vars

(***************************************************************************)
(* SpecCosine: cosineSimilarity applied to every pair of vectors of        *)
(* CosineVectors: lengths 0 to 3, zero vectors, single axes, opposite and  *)
(* oblique vectors, and vectors whose squares pass MaxNumber.              *)
(***************************************************************************)
CosineVectors == Vectors

Cosine(a, b) ==
    /\ \E result \in {cosineSimilarity(a, b)} :
          last' = Call("cosineSimilarity", NoKey, <<a, b>>,
                       IF result = Error THEN "threw" ELSE "returned", result)
    /\ UNCHANGED <<entries, stats, now>>
    /\ Remember

NextCosine ==
    \/ \E a \in CosineVectors, b \in CosineVectors :
          Cosine(a, b) /\ NoHistory /\ NoAwait

SpecCosine == Init /\ [][NextCosine]_vars

(***************************************************************************)
(* SpecStats: every operation of the interface, stats() included, on two   *)
(* keys and one value.  set is called with no vector ("x" then fails in    *)
(* embedFn), with a vector of the right length and with one of the wrong   *)
(* length; getSimilar with a text embedFn accepts, the text it fails on, a *)
(* vector of the right length and one of the wrong length.                 *)
(***************************************************************************)
StatKeys == {"a", "x"}
StatEmbeddings == {NoEmbedding, <<0, 1>>, <<1, 0, 0>>}
StatQueryTexts == {"a", "x"}
StatQueryVectors == {<<3, 4>>, <<1, 0, 0>>}
StatKs == {1, 2}
StatThresholds == {NoThreshold, <<3, 5>>}

NextStats ==
    \/ \E key \in StatKeys : Get(key) /\ NoHistory /\ NoAwait
    \/ \E key \in StatKeys, embedding \in StatEmbeddings :
          Set(key, "v1", embedding) /\ NoHistory /\ NoAwait
    \/ \E query \in StatQueryTexts, k \in StatKs, threshold \in StatThresholds :
          GetSimilarText(query, k, threshold) /\ NoHistory /\ NoAwait
    \/ \E query \in StatQueryVectors, k \in StatKs, threshold \in StatThresholds :
          GetSimilarVector(query, k, threshold) /\ NoHistory /\ NoAwait
    \/ \E key \in StatKeys : Has(key) /\ NoHistory /\ NoAwait
    \/ \E key \in StatKeys : Delete(key) /\ NoHistory /\ NoAwait
    \/ Clear /\ NoHistory /\ NoAwait
    \/ Stats /\ NoHistory /\ NoAwait
    \/ Tick /\ NoHistory /\ NoAwait

SpecStats == Init /\ [][NextStats]_vars

(***************************************************************************)
(* SpecAsync: set with an asynchronous embedFn.  Up to MaxPending set      *)
(* calls are suspended at a time; they resume in any order, interleaved    *)
(* with delete, clear and the clock.                                       *)
(***************************************************************************)
NextAsync ==
    \/ \E key \in Keys : SetCall(key, "v1") /\ NoHistory
    \/ \E call \in pending : SetResume(call) /\ NoHistory
    \/ \E key \in Keys : Delete(key) /\ NoHistory /\ NoAwait
    \/ Clear /\ NoHistory /\ NoAwait
    \/ Tick /\ NoHistory /\ NoAwait

SpecAsync == Init /\ [][NextAsync]_vars

(***************************************************************************)
(* SpecOverlap: asynchronous sets of one key with two values, so that the  *)
(* stored entry tells which call wrote it, interleaved with get, clear and *)
(* the clock.                                                              *)
(***************************************************************************)
OverlapKeys == {"a"}

NextOverlap ==
    \/ \E key \in OverlapKeys, value \in Values : SetCall(key, value) /\ NoHistory
    \/ \E call \in pending : SetResume(call) /\ NoHistory
    \/ \E key \in OverlapKeys : Get(key) /\ NoHistory /\ NoAwait
    \/ Clear /\ NoHistory /\ NoAwait
    \/ Tick /\ NoHistory /\ NoAwait

SpecOverlap == Init /\ [][NextOverlap]_vars

(***************************************************************************)
(* SpecAsyncSim: getSimilar with a text query and an asynchronous embedFn. *)
(* embedFn returns a promise for the query text "q" and the vector itself  *)
(* for the keys, so set has nothing to await.  The store is filled by set, *)
(* changed by delete, clear and the clock while up to MaxQueries queries   *)
(* are suspended.  embedFn("q") = <<0, 1>>, so at the threshold 0 the      *)
(* query admits both "b" (<<3, 4>>, similarity 4/5) and "a" (<<1, 0>>,     *)
(* similarity 0).                                                          *)
(***************************************************************************)
AsyncSimKeys == {"a", "b"}
AsyncSimKs == {2}
AsyncSimThresholds == {<<0, 1>>}

NextAsyncSim ==
    \/ \E key \in AsyncSimKeys, value \in Values :
          Set(key, value, NoEmbedding) /\ NoHistory /\ NoAwait
    \/ \E k \in AsyncSimKs, threshold \in AsyncSimThresholds :
          GetSimilarCall("q", k, threshold) /\ NoHistory
    \/ \E call \in pending : GetSimilarResume(call) /\ NoHistory
    \/ \E key \in AsyncSimKeys : Delete(key) /\ NoHistory /\ NoAwait
    \/ Clear /\ NoHistory /\ NoAwait
    \/ Tick /\ NoHistory /\ NoAwait

SpecAsyncSim == Init /\ [][NextAsyncSim]_vars

(***************************************************************************)
(* SpecEmbed: set with the vectors a caller or embedFn can hand over: the  *)
(* right length, or (supplied, or produced for the text "w") length 3.     *)
(***************************************************************************)
EmbedKeys == {"a", "b", "w"}
EmbedEmbeddings == {NoEmbedding, <<0, 1>>, <<1, 0, 0>>}

NextEmbed ==
    \/ \E key \in EmbedKeys, value \in Values, embedding \in EmbedEmbeddings :
          Set(key, value, embedding) /\ NoHistory /\ NoAwait
    \/ \E key \in EmbedKeys : Has(key) /\ NoHistory /\ NoAwait
    \/ \E key \in EmbedKeys : Delete(key) /\ NoHistory /\ NoAwait
    \/ Tick /\ NoHistory /\ NoAwait

SpecEmbed == Init /\ [][NextEmbed]_vars

(***************************************************************************)
(* Properties.                                                             *)
(***************************************************************************)

(* C1: round trip.  A get(k) issued after a completed set(k, v), before    *)
(* that entry's TTL has elapsed (now < time of the set + ttl) and with no  *)
(* set, delete, clear or eviction of k in between, returns exactly v; k    *)
(* may be the empty string.                                                *)
RoundTrip ==
    [][(/\ last'.op = "get"
        /\ written[last'.key].set
        /\ now' < written[last'.key].at + ttl)
       => last'.ret = written[last'.key].value]_vars

(* C1 witness: a get of the empty key, one instant after it was set to     *)
(* "v2", returned "v2".                                                    *)
RoundTripWitness ==
    /\ last.op = "get"
    /\ last.key = ""
    /\ written[""].set
    /\ written[""].at < now
    /\ written[""].value = "v2"
    /\ last.ret = "v2"

(* C2 as stated: whenever now >= expiresAt for the stored entry of k,      *)
(* get(k) returns null and has(k) returns false.                           *)
ExpiredFromExpiresAt ==
    [][(/\ last'.op \in {"get", "has"}
        /\ MapHas(entries, last'.key)
        /\ now >= MapGet(entries, last'.key).expiresAt)
       => IF last'.op = "get" THEN last'.ret = NULL ELSE last'.ret = FALSE]_vars

(* C2 amended: whenever now > expiresAt for the stored entry of k, get(k)  *)
(* returns null and has(k) returns false, although the entry is still in   *)
(* storage when the call is made.                                          *)
ExpiredAfterExpiresAt ==
    [][(/\ last'.op \in {"get", "has"}
        /\ MapHas(entries, last'.key)
        /\ now > MapGet(entries, last'.key).expiresAt)
       => IF last'.op = "get" THEN last'.ret = NULL ELSE last'.ret = FALSE]_vars

(* C2 witness: a get found its key stored but expired and returned null.   *)
ExpiredWitness ==
    /\ last.op = "get"
    /\ last.found = "expired"
    /\ last.ret = NULL

(* C3: the number of entries in storage never exceeds maxSize.             *)
SizeBound == Len(entries) <= maxSize

(* C6: overwrite.  A set(k, v') on a key already in storage leaves the     *)
(* size and every other entry as they were, also when the store is full,   *)
(* and a get(k) right afterwards returns v'.                               *)
Overwrite ==
    [][(/\ last'.op = "set"
        /\ last'.ret = "ok"
        /\ MapHas(entries, last'.key))
       => /\ Len(entries') = Len(entries)
          /\ \A i \in 1..Len(entries) :
                entries[i].key # last'.key => entries'[i] = entries[i]
          /\ GetReturn(entries', last'.key, now') = last'.arg[1]]_vars

(* C6 witness: a set has overwritten a live key of a full store with "v2". *)
OverwriteWitness ==
    /\ last.op = "set"
    /\ last.ret = "ok"
    /\ last.found = "live"
    /\ last.arg[1] = "v2"
    /\ Len(entries) = maxSize

(* C4: after maxSize + 1 distinct keys have been set into an empty cache   *)
(* with no other call in between, storage holds exactly maxSize entries:   *)
(* every key of the run but the first.                                     *)
OverflowEvictsFirst ==
    (run.ok /\ Len(run.keys) = maxSize + 1)
    => /\ Len(entries) = maxSize
       /\ KeysOf(entries) = {run.keys[i] : i \in 2..(maxSize + 1)}

(* C5: LRU eviction.  Whenever a set removes an entry to make room, the    *)
(* entry removed is the least recently used one of the store.              *)
EvictsLeastRecentlyUsed ==
    [][(/\ last'.op = "set"
        /\ last'.ret = "ok"
        /\ KeysOf(entries) \ KeysOf(entries') # {})
       => KeysOf(entries) \ KeysOf(entries') = {Head(recency)}]_vars

(***************************************************************************)
(* What a getSimilar call was asked, read off `last`.                      *)
(***************************************************************************)
AskedK == last.arg[2]

AskedThreshold ==
    IF last.arg[3] = NoThreshold THEN similarityThreshold ELSE last.arg[3]

SimilarityTo(i) == Similarities[last.arg[4]][entries[i].embedding]

Qualifying ==
    {i \in 1..Len(entries) :
        /\ ~(entries[i].expiresAt < now)
        /\ ~FracLess(SimilarityTo(i), AskedThreshold)}

Returned == {IndexOf(entries, last.ret[j].key) : j \in 1..Len(last.ret)}

(* C7: getSimilar never returns an entry whose similarity to the query is  *)
(* below the effective threshold: the threshold argument if supplied,      *)
(* otherwise config.similarityThreshold.                                   *)
AboveThreshold ==
    (last.op = "getSimilar")
    => \A j \in 1..Len(last.ret) :
          /\ MapHas(entries, last.ret[j].key)
          /\ ~FracLess(SimilarityTo(IndexOf(entries, last.ret[j].key)), AskedThreshold)

(* C7 witness: a getSimilar with an explicit threshold returned one of two *)
(* live entries and left out the other, whose similarity is below it.      *)
AboveThresholdWitness ==
    /\ last.op = "getSimilar"
    /\ last.arg[3] = <<3, 5>>
    /\ Len(last.ret) = 1
    /\ Len(entries) = 2
    /\ \A i \in 1..2 : ~(entries[i].expiresAt < now)
    /\ \E i \in 1..2 : FracLess(SimilarityTo(i), <<3, 5>>)

(* C8: the results of getSimilar are in descending order of similarity,    *)
(* and two results of equal similarity are in the iteration (insertion)    *)
(* order of the store.                                                     *)
SortedDescending ==
    (last.op = "getSimilar")
    => \A i, j \in 1..Len(last.ret) :
          i < j =>
            /\ ~FracLess(last.ret[i].similarity, last.ret[j].similarity)
            /\ last.ret[i].similarity = last.ret[j].similarity
               => IndexOf(entries, last.ret[i].key) < IndexOf(entries, last.ret[j].key)

(* C8 witness: two results of equal similarity, "b" (stored first) ahead   *)
(* of "a".                                                                 *)
SortedTieWitness ==
    /\ last.op = "getSimilar"
    /\ Len(last.ret) = 2
    /\ last.ret[1].similarity = last.ret[2].similarity
    /\ last.ret[1].key = "b"
    /\ entries[1].key = "b"

(* C9: top-k.  For k >= 0 getSimilar returns exactly min(k, q) results,    *)
(* q being the number of stored entries that are not expired and whose     *)
(* similarity is at least the effective threshold; every result is one of  *)
(* them, and none left out has a strictly greater similarity than a        *)
(* returned one.                                                           *)
TopK ==
    (last.op = "getSimilar" /\ last.found = "returned" /\ AskedK >= 0)
    => /\ Len(last.ret) = IF AskedK < Cardinality(Qualifying)
                          THEN AskedK ELSE Cardinality(Qualifying)
       /\ Returned \subseteq Qualifying
       /\ Cardinality(Returned) = Len(last.ret)
       /\ \A i \in Qualifying \ Returned : \A r \in Returned :
             ~FracLess(SimilarityTo(r), SimilarityTo(i))

(* C9 witness: k = 1 with two qualifying entries: one result, the entry    *)
(* stored second, which is the more similar one.                           *)
TopKWitness ==
    /\ last.op = "getSimilar"
    /\ AskedK = 1
    /\ Cardinality(Qualifying) = 2
    /\ Len(last.ret) = 1
    /\ Returned = {2}
    /\ FracLess(SimilarityTo(1), SimilarityTo(2))

(* C10: for every k <= 0 getSimilar returns an empty result.               *)
EmptyForNonPositiveK ==
    (last.op = "getSimilar" /\ AskedK <= 0) => last.ret = <<>>

(* C11: immediately after clear(), stats() is {hits: 0, misses: 0,         *)
(* similarHits: 0, size: 0, hitRate: 0} and has(k) is false for every key  *)
(* k that was in storage before.                                           *)
ClearResets ==
    [][(last'.op = "clear")
       => /\ CacheStats(entries', stats') =
               [hits |-> 0, misses |-> 0, similarHits |-> 0, size |-> 0,
                hitRate |-> <<0, 1>>]
          /\ \A k \in KeysOf(entries) : ~GetHit(entries', k, now')]_vars

(* C11 witness: a clear() of a store of two entries whose three counters   *)
(* were all positive.                                                      *)
ClearResetsWitness ==
    /\ last.op = "clear"
    /\ last.arg[1] = 2
    /\ last.arg[2] > 0 /\ last.arg[3] > 0 /\ last.arg[4] > 0
    /\ entries = <<>>
    /\ stats = [hits |-> 0, misses |-> 0, similarHits |-> 0]

(* C12: set(k, v, vec) with a vector whose length is not embeddingDimension *)
(* fails with the dimension error and leaves the whole state as it was:    *)
(* the entry of k if any, every other entry, the size and the counters; no *)
(* entry is evicted.                                                       *)
BadVectorRejected ==
    [][(/\ last'.op = "set"
        /\ last'.arg[2] # NoEmbedding
        /\ Len(last'.arg[2]) # embeddingDimension)
       => /\ last'.ret = "error"
          /\ entries' = entries
          /\ stats' = stats]_vars

(* C12 witness: a set with a vector of length 3 on a key not in storage    *)
(* failed while the store was full (a valid set would have evicted) and a  *)
(* counter was positive.                                                   *)
BadVectorRejectedWitness ==
    /\ last.op = "set"
    /\ Len(last.arg[2]) = 3
    /\ last.ret = "error"
    /\ last.found = "absent"
    /\ Len(entries) = maxSize
    /\ stats.hits > 0

(* C13: when embedFn throws or rejects during a set with no vector or a    *)
(* getSimilar with a text query, the call fails with that error and the    *)
(* state is unchanged: no entry added, replaced or evicted, no counter     *)
(* changed.                                                                *)
EmbedErrorPropagates ==
    [][(\/ /\ last'.op = "set"
           /\ last'.arg[2] = NoEmbedding
           /\ embedFnThrows(last'.key)
        \/ /\ last'.op = "getSimilar"
           /\ last'.key # NoKey
           /\ embedFnThrows(last'.key))
       => /\ IF last'.op = "set" THEN last'.ret = "embedError"
                                 ELSE last'.found = "embedError"
          /\ entries' = entries
          /\ stats' = stats]_vars

(* C13 witness: a set of "x" with no vector failed in embedFn while "x"    *)
(* was not stored, another entry was, and a counter was positive.          *)
EmbedErrorWitness ==
    /\ last.op = "set"
    /\ last.key = "x"
    /\ last.arg[2] = NoEmbedding
    /\ last.ret = "embedError"
    /\ last.found = "absent"
    /\ Len(entries) = 1
    /\ stats.similarHits > 0

(* C14: every get changes exactly one counter by exactly one: misses when  *)
(* the key is absent or expired, hits when it is present and live; the     *)
(* other of the two and similarHits are unchanged.                         *)
GetCountsOnce ==
    [][(last'.op = "get")
       => /\ IF last'.found = "live"
             THEN /\ stats'.hits = stats.hits + 1
                  /\ stats'.misses = stats.misses
             ELSE /\ stats'.misses = stats.misses + 1
                  /\ stats'.hits = stats.hits
          /\ stats'.similarHits = stats.similarHits]_vars

(* C14 witness: a get of a stored but expired key counted a miss, after a  *)
(* hit and similarity hits had been counted.                               *)
GetCountsOnceWitness ==
    /\ last.op = "get"
    /\ last.found = "expired"
    /\ stats.misses = 1
    /\ stats.hits = 1
    /\ stats.similarHits > 0

(* C15: each getSimilar call increases similarHits by exactly the number   *)
(* of results it returns, 0 when it returns none.                          *)
SimilarHitsByCount ==
    [][(last'.op = "getSimilar")
       => stats'.similarHits = stats.similarHits + Len(last'.ret)]_vars

(* C15 witness: one getSimilar call returned two results and similarHits   *)
(* went from 0 to 2.                                                       *)
SimilarHitsByCountWitness ==
    /\ last.op = "getSimilar"
    /\ Len(last.ret) = 2
    /\ stats.similarHits = 2

(* C16: in every reachable state stats().hitRate is hits / (hits + misses) *)
(* when hits + misses > 0 and 0 when hits + misses = 0; it is 1 exactly    *)
(* when there has been a hit and no miss since the last reset.             *)
HitRateDefined ==
    LET rate == CacheStats(entries, stats).hitRate
        total == stats.hits + stats.misses
    IN /\ rate[2] > 0
       /\ total > 0 => rate[1] * total = stats.hits * rate[2]
       /\ total = 0 => rate[1] = 0
       /\ (rate[1] = rate[2]) <=> (stats.hits >= 1 /\ stats.misses = 0)

(* C16 witness: stats() returned the hit rate 1/2, after one hit and one   *)
(* miss, with similarity hits counted as well.                             *)
HitRateWitness ==
    /\ last.op = "stats"
    /\ last.ret.hits = 1
    /\ last.ret.misses = 1
    /\ last.ret.similarHits > 0
    /\ last.ret.hitRate = <<1, 2>>

(* C17: delete(k) returns true iff an entry for k was in storage, and then *)
(* this call removed it; it returns false otherwise and removes nothing.   *)
(* After delete(k), has(k) is false and get(k) returns null until a later  *)
(* set(k, ...): a key not in storage comes into it only by a set of it.    *)
DeleteRemoves ==
    [][/\ (last'.op = "delete")
          => /\ last'.ret = MapHas(entries, last'.key)
             /\ Len(entries') = IF last'.ret THEN Len(entries) - 1 ELSE Len(entries)
             /\ KeysOf(entries') = KeysOf(entries) \ {last'.key}
             /\ ~GetHit(entries', last'.key, now')
             /\ GetReturn(entries', last'.key, now') = NULL
       /\ \A k \in AllKeys :
             (~MapHas(entries, k) /\ MapHas(entries', k))
             => (last'.op = "set" /\ last'.key = k)
       /\ \A k \in AllKeys :
             ~MapHas(entries, k)
             => (~GetHit(entries, k, now) /\ GetReturn(entries, k, now) = NULL)]_vars

(* C17 witness: delete returned true for an entry that was stored but      *)
(* expired, and removed it from a store of two.                            *)
DeleteRemovesWitness ==
    /\ last.op = "delete"
    /\ last.found = "expired"
    /\ last.ret = TRUE
    /\ Len(entries) = 1
    /\ ~MapHas(entries, last.key)

(* C18: has(k) returns true iff k is in storage and not expired (its       *)
(* expiresAt is not before now), and no has call changes hits, misses or   *)
(* similarHits, also when it purges an expired entry.                      *)
HasIsPure ==
    [][(last'.op = "has")
       => /\ last'.ret = (/\ MapHas(entries, last'.key)
                          /\ ~(MapGet(entries, last'.key).expiresAt < now))
          /\ stats' = stats]_vars

(* C18 witness: has returned false for a stored but expired key and purged *)
(* it, with hits and misses both counted before.                           *)
HasIsPureWitness ==
    /\ last.op = "has"
    /\ last.found = "expired"
    /\ last.ret = FALSE
    /\ ~MapHas(entries, last.key)
    /\ stats.hits > 0
    /\ stats.misses > 0

(* C19: expired entries are removed from the size count: once the TTL of   *)
(* every stored entry has elapsed and a get of one of the stored keys has  *)
(* been made, the reported size is 0.                                      *)
ExpiredLeaveSize ==
    [][(/\ last'.op = "get"
        /\ MapHas(entries, last'.key)
        /\ \A i \in 1..Len(entries) : entries[i].expiresAt < now)
       => CacheStats(entries', stats').size = 0]_vars

(* C20: the cache offers a statistics reset: whenever requests have been   *)
(* counted and entries are stored, some operation is available that sets   *)
(* hits and misses to 0 and leaves the stored entries, hence the reported  *)
(* size, unchanged.                                                        *)
ResetStatsOffered ==
    (stats.hits + stats.misses > 0 /\ entries # <<>>)
    => ENABLED (/\ NextStats
                /\ stats'.hits = 0
                /\ stats'.misses = 0
                /\ entries' = entries)

(* C21: every similarity value in a getSimilar result lies in the range 0  *)
(* to 1, whatever the query and the threshold argument.                    *)
SimilarityInUnitRange ==
    (last.op = "getSimilar")
    => \A j \in 1..Len(last.ret) :
          /\ FracGeq(last.ret[j].similarity, <<0, 1>>)
          /\ FracGeq(<<1, 1>>, last.ret[j].similarity)

(* C23 as stated: an expired entry touched by get(k), by has(k) or by the  *)
(* scan of a getSimilar call is removed from storage by that access.       *)
PurgedByEveryRead ==
    [][/\ (last'.op \in {"get", "has"} /\ last'.found = "expired")
          => ~MapHas(entries', last'.key)
       /\ (last'.op = "getSimilar" /\ last'.found = "returned")
          => \A i \in 1..Len(entries) :
                entries[i].expiresAt < now => ~MapHas(entries', entries[i].key)]_vars

(* C23 amended: an expired entry touched by get(k) or by has(k) is removed *)
(* from storage by that access, and no other entry is; the scan of a       *)
(* getSimilar call skips expired entries and leaves the store as it was.   *)
PurgedByKeyedRead ==
    [][/\ (last'.op \in {"get", "has"} /\ last'.found = "expired")
          => /\ ~MapHas(entries', last'.key)
             /\ Len(entries') = Len(entries) - 1
             /\ CacheStats(entries', stats').size = Len(entries) - 1
       /\ (last'.op = "getSimilar") => entries' = entries]_vars

(* C23 witness: a getSimilar call returned the live entry of a store of    *)
(* two whose other entry is expired and still stored.                      *)
PurgedByKeyedReadWitness ==
    /\ last.op = "getSimilar"
    /\ last.found = "returned"
    /\ Len(last.ret) = 1
    /\ Len(entries) = 2
    /\ \E i \in 1..2 : entries[i].expiresAt < now

CountersMonotone ==
    [][/\ (last'.op # "clear")
          => /\ stats'.hits >= stats.hits
             /\ stats'.misses >= stats.misses
             /\ stats'.similarHits >= stats.similarHits
       /\ (last'.op \in {"set", "delete", "has", "stats"}) => stats' = stats]_vars

(* C27 witness: a getSimilar call with one result took similarHits from 1  *)
(* to 2, with a hit and a miss counted.                                    *)
CountersMonotoneWitness ==
    /\ last.op = "getSimilar"
    /\ Len(last.ret) = 1
    /\ stats.similarHits = 2
    /\ stats.hits > 0
    /\ stats.misses > 0

EvictsExactlyOne ==
    [][(last'.op = "set" /\ last'.ret = "ok")
       => /\ (~MapHas(entries, last'.key) /\ Len(entries) = maxSize)
             => /\ Cardinality(KeysOf(entries) \ KeysOf(entries')) = 1
                /\ \A i \in 1..Len(entries) :
                      MapHas(entries', entries[i].key)
                      => MapGet(entries', entries[i].key) = entries[i]
          /\ (MapHas(entries, last'.key) \/ Len(entries) < maxSize)
             => KeysOf(entries) \subseteq KeysOf(entries')]_vars

(* C22: in every reachable state every stored entry's vector has length    *)
(* exactly embeddingDimension, whether the caller supplied it or embedFn   *)
(* produced it.                                                            *)
VectorsHaveDimension ==
    \A i \in 1..Len(entries) : Len(entries[i].embedding) = embeddingDimension

(* C28: atomic insert after suspension.  A set that awaits its embedding   *)
(* touches nothing when it is called, and when the embedding resolves it   *)
(* does its capacity check, its eviction and its insertion in one step:    *)
(* no state shows the victim removed and the new entry missing, and        *)
(* overlapping sets of distinct new keys never leave more than maxSize     *)
(* entries.                                                                *)
AtomicInsert ==
    [][/\ (last'.op = "setCall") => (entries' = entries /\ stats' = stats)
       /\ (last'.op = "set" /\ KeysOf(entries) \ KeysOf(entries') # {})
          => MapHas(entries', last'.key)
       /\ Len(entries') <= maxSize]_vars

(* C29: every stored entry satisfies expiresAt = timestamp + ttl, and the  *)
(* timestamp of an entry is the clock value of the step that writes it to  *)
(* the store, after the embedding has been obtained, not that of the call. *)
StampedAtStore ==
    [][/\ (last'.op = "set" /\ last'.ret = "ok")
          => /\ MapGet(entries', last'.key).timestamp = now'
             /\ MapGet(entries', last'.key).expiresAt = now' + ttl
       /\ \A i \in 1..Len(entries') :
             entries'[i].expiresAt = entries'[i].timestamp + ttl]_vars

(* C29 witness: a set called at an earlier time has just stored its entry, *)
(* stamped with the present time.                                          *)
StampedAtStoreWitness ==
    /\ last.op = "set"
    /\ last.ret = "ok"
    /\ calledAt # <<>>
    /\ calledAt[1] < now
    /\ MapGet(entries, last.key).timestamp = now
    /\ MapGet(entries, last.key).expiresAt = now + ttl

(* C30: overwriting restarts the lifetime.  After set(k, v') on a stored   *)
(* key the entry's value, vector, timestamp and expiresAt are those of the *)
(* new set, so k is live until ttl after the overwrite, and k is not the   *)
(* eviction victim while a strictly older entry is stored: no set removes  *)
(* an entry that is newer than another stored one.                         *)
OverwriteRestarts ==
    [][/\ (last'.op = "set" /\ last'.ret = "ok" /\ MapHas(entries, last'.key))
          => /\ MapGet(entries', last'.key) =
                  [key |-> last'.key,
                   value |-> last'.arg[1],
                   embedding |-> IF last'.arg[2] # NoEmbedding
                                 THEN last'.arg[2]
                                 ELSE embedFn(last'.key),
                   timestamp |-> now',
                   expiresAt |-> now' + ttl]
             /\ \A t \in now'..(now' + ttl - 1) : GetHit(entries', last'.key, t)
             /\ (\E j \in 1..Len(entries') : entries'[j].timestamp < now')
                => MapHas(evictOldest(entries'), last'.key)
       /\ (last'.op = "set" /\ last'.ret = "ok")
          => \A i \in 1..Len(entries) :
                ~MapHas(entries', entries[i].key)
                => \A j \in 1..Len(entries) :
                      entries[j].timestamp >= entries[i].timestamp]_vars

(* C30 witness: a set has overwritten the first entry of a full store with *)
(* the value "v2" and a supplied vector; it now carries the present time   *)
(* while the entry behind it is older.                                     *)
OverwriteRestartsWitness ==
    /\ last.op = "set"
    /\ last.ret = "ok"
    /\ last.found \in {"live", "expired"}
    /\ last.arg = <<"v2", <<0, 1>>>>
    /\ Len(entries) = maxSize
    /\ entries[1].key = last.key
    /\ entries[1].value = "v2"
    /\ entries[1].embedding = <<0, 1>>
    /\ entries[1].timestamp = now
    /\ entries[2].timestamp < now

(* C39: getSimilar never changes hits or misses: a query that returns no   *)
(* result is not counted as a miss, one that returns results is not        *)
(* counted as a hit, and the hit rate is the same before and after it.     *)
GetSimilarLeavesRequests ==
    [][(last'.op = "getSimilar")
        => /\ stats'.hits = stats.hits
           /\ stats'.misses = stats.misses
           /\ hitRate(stats') = hitRate(stats)]_vars

(* C39 witness: after one hit and one miss of get, a getSimilar has        *)
(* returned a result and the hit rate is still 1/2.                        *)
GetSimilarLeavesRequestsWitness ==
    /\ last.op = "getSimilar"
    /\ last.found = "returned"
    /\ last.ret # <<>>
    /\ stats.similarHits > 0
    /\ stats.hits = 1
    /\ stats.misses = 1
    /\ hitRate(stats) = <<1, 2>>

(* C40: a set on a key whose entry is expired but still stored is an       *)
(* overwrite: even when the store holds maxSize entries it removes no      *)
(* other entry and leaves the size unchanged, and the key is live again    *)
(* with the new value and an expiry of ttl from the set.                   *)
ExpiredKeyOverwritten ==
    [][(/\ last'.op = "set"
        /\ last'.ret = "ok"
        /\ MapHas(entries, last'.key)
        /\ MapGet(entries, last'.key).expiresAt <= now)
        => /\ KeysOf(entries') = KeysOf(entries)
           /\ Len(entries') = Len(entries)
           /\ \A i \in 1..Len(entries) :
                 entries[i].key # last'.key => entries'[i] = entries[i]
           /\ GetReturn(entries', last'.key, now') = last'.arg[1]
           /\ MapGet(entries', last'.key).expiresAt = now' + ttl
           /\ MapGet(entries', last'.key).expiresAt
                 > MapGet(entries, last'.key).expiresAt]_vars

(* C40 witness: a set with the value "v2" found its key expired in a full  *)
(* store whose other entry is expired too; both keys are still stored and  *)
(* the key set reads "v2" again.                                           *)
ExpiredKeyOverwrittenWitness ==
    /\ last.op = "set"
    /\ last.ret = "ok"
    /\ last.found = "expired"
    /\ last.arg[1] = "v2"
    /\ Len(entries) = maxSize
    /\ \E i \in 1..Len(entries) :
          entries[i].key # last.key /\ IsExpired(entries[i], now)
    /\ GetReturn(entries, last.key, now) = "v2"
    /\ MapGet(entries, last.key).expiresAt = now + ttl

(* C34: with a non-decreasing clock and a fixed ttl, eviction never        *)
(* removes a non-expired entry while an expired entry remains in storage:  *)
(* whenever set removes an entry that is still live, no stored entry is    *)
(* expired.                                                                *)
EvictsExpiredFirst ==
    [][(last'.op = "set")
        => \A i \in 1..Len(entries) :
              (/\ ~MapHas(entries', entries[i].key)
               /\ ~IsExpired(entries[i], now))
              => /\ \A j \in 1..Len(entries) : ~IsExpired(entries[j], now)
                 /\ \A j \in 1..Len(entries') : ~IsExpired(entries'[j], now')]_vars

(* C34 witness: a set has just removed a live entry to make room, at a     *)
(* time when an earlier entry could already have expired, and every entry  *)
(* left in the store is live.                                              *)
EvictsExpiredFirstWitness ==
    /\ last.op = "set"
    /\ evicted # <<>>
    /\ ~IsExpired(evicted[1].entry, now)
    /\ now > ttl
    /\ Len(entries) = maxSize
    /\ \A j \in 1..Len(entries) : ~IsExpired(entries[j], now)

(* C38: getSimilar with a query vector whose length differs from the       *)
(* length of the stored vectors fails with an error exactly when at least  *)
(* one non-expired entry is stored; with no live entry it returns an empty *)
(* result; and when it fails no counter and no entry changes.              *)
WrongLengthQuery ==
    [][(/\ last'.op = "getSimilar"
        /\ last'.found # "embedError"
        /\ \A i \in 1..Len(entries) :
              Len(entries[i].embedding) # Len(last'.arg[4]))
        => /\ (last'.found = "threw")
              <=> (\E i \in 1..Len(entries) : ~IsExpired(entries[i], now))
           /\ (last'.found = "returned") => last'.ret = <<>>
           /\ (last'.found = "threw") => (stats' = stats /\ entries' = entries)]_vars

(* C38 witness: a query vector of length 3 met a store whose first entry   *)
(* is expired and whose second entry is live, and getSimilar failed.       *)
WrongLengthQueryWitness ==
    /\ last.op = "getSimilar"
    /\ last.found = "threw"
    /\ Len(last.arg[4]) = 3
    /\ Len(entries) = 2
    /\ IsExpired(entries[1], now)
    /\ ~IsExpired(entries[2], now)
    /\ Len(entries[2].embedding) = embeddingDimension

(* C38, the other case: the same query met a store that holds only an      *)
(* expired entry and returned the empty result.                            *)
WrongLengthQueryEmptyWitness ==
    /\ last.op = "getSimilar"
    /\ last.found = "returned"
    /\ last.ret = <<>>
    /\ Len(last.arg[4]) = 3
    /\ entries # <<>>
    /\ \A i \in 1..Len(entries) : IsExpired(entries[i], now)

(* C35: when two set calls on the same key overlap, both awaiting their    *)
(* embedding, the entry stored in the end is that of the call whose        *)
(* embedding resolved last, whatever the order in which the two calls were *)
(* issued: every set that resumes leaves its own value and the present     *)
(* time under its key, and the store never holds two entries for one key.  *)
LastResolvedWins ==
    [][/\ (last'.op = "set" /\ calledAt' # <<>> /\ ~embedFnThrows(last'.key))
          => /\ MapHas(entries', last'.key)
             /\ MapGet(entries', last'.key).value = calledAt'[2].value
             /\ MapGet(entries', last'.key).timestamp = now'
       /\ \A i, j \in 1..Len(entries') :
             entries'[i].key = entries'[j].key => i = j]_vars

(* C35 witness: a set of "a" with the value "v1" has just resumed after a  *)
(* set of "a" with the value "v2" that was called later and resolved       *)
(* first; the store holds the one entry of "a", with the value "v1".       *)
LastResolvedWinsWitness ==
    /\ last.op = "set"
    /\ last.key = "a"
    /\ calledAt # <<>>
    /\ calledAt[2].value = "v1"
    /\ "v2" \in calledAt[2].overtaken
    /\ ~calledAt[2].cleared
    /\ Len(entries) = 1
    /\ entries[1].key = "a"
    /\ entries[1].value = "v1"

(* C36: clear() does not cancel a set that is suspended awaiting its       *)
(* embedding.  clear() empties the store and zeroes the counters and drops *)
(* no suspended call; the set still inserts its entry when it resumes, and *)
(* that insertion changes no counter.                                      *)
ClearKeepsSuspendedSet ==
    [][/\ (last'.op = "clear")
          => /\ entries' = <<>>
             /\ stats' = [hits |-> 0, misses |-> 0, similarHits |-> 0]
             /\ Cardinality(pending') = Cardinality(pending)
       /\ (/\ last'.op = "set"
           /\ calledAt' # <<>>
           /\ calledAt'[2].cleared
           /\ ~embedFnThrows(last'.key))
          => /\ MapHas(entries', last'.key)
             /\ MapGet(entries', last'.key).value = last'.arg[1]
             /\ stats' = stats]_vars

(* C36 witness: a set that was suspended when clear() ran has resumed; no  *)
(* other set is suspended, and the store holds its entry and nothing else. *)
ClearKeepsSuspendedSetWitness ==
    /\ last.op = "set"
    /\ last.ret = "ok"
    /\ calledAt # <<>>
    /\ calledAt[2].cleared
    /\ calledAt[2].overtaken = {}
    /\ pending = {}
    /\ Len(entries) = 1
    /\ entries[1].key = last.key
    /\ entries[1].value = last.arg[1]
    /\ stats = [hits |-> 0, misses |-> 0, similarHits |-> 0]

ScansAtResolutionExpiredWitness ==
    /\ last.op = "getSimilar"
    /\ calledAt # <<>>
    /\ last.found = "returned"
    /\ AskedK = 2
    /\ AskedThreshold = <<0, 1>>
    /\ \E key \in calledAt[2].seen :
          /\ MapHas(entries, key)
          /\ IsExpired(MapGet(entries, key), now)
          /\ \A j \in 1..Len(last.ret) : last.ret[j].key # key

(* C31: the effective threshold of getSimilar is exactly the threshold     *)
(* argument whenever one is supplied, 0, negative values and values above  *)
(* 1 included, with no clamping, and config.similarityThreshold only when  *)
(* the argument is omitted: the entries returned are live entries whose    *)
(* similarity is at least that number, all of them when k leaves room.  A  *)
(* threshold below -1 admits every live entry and one above 1 admits none. *)
ThresholdAsGiven ==
    (last.op = "getSimilar" /\ last.found = "returned")
    => \E t \in {IF last.arg[3] # NoThreshold THEN last.arg[3]
                 ELSE similarityThreshold} :
       \E admitted \in {{i \in 1..Len(entries) :
                           /\ ~IsExpired(entries[i], now)
                           /\ SimilarityTo(i)[1] * t[2] >= t[1] * SimilarityTo(i)[2]}} :
          /\ Returned \subseteq admitted
          /\ (AskedK >= Cardinality(admitted)) => Returned = admitted
          /\ (last.arg[3] # NoThreshold /\ t[1] < -t[2] /\ AskedK >= Len(entries))
             => Returned = {i \in 1..Len(entries) : ~IsExpired(entries[i], now)}
          /\ (last.arg[3] # NoThreshold /\ t[1] > t[2]) => last.ret = <<>>

(* C31 witness, above 1: asked with the threshold 3/2 while a live entry   *)
(* has the similarity 1 to the query, getSimilar returned nothing.         *)
ThresholdAsGivenWitness ==
    /\ last.op = "getSimilar"
    /\ last.found = "returned"
    /\ last.arg[3] = <<3, 2>>
    /\ AskedK = 2
    /\ last.ret = <<>>
    /\ \E i \in 1..Len(entries) :
          ~IsExpired(entries[i], now) /\ SimilarityTo(i) = <<1, 1>>

(* C31, negative: asked with the threshold -3/2, getSimilar returned two   *)
(* live entries, one of them of similarity -1.                             *)
ThresholdBelowAllWitness ==
    /\ last.op = "getSimilar"
    /\ last.found = "returned"
    /\ last.arg[3] = <<-3, 2>>
    /\ Len(last.ret) = 2
    /\ last.ret[2].similarity = <<-1, 1>>

(* C31, zero: asked with the threshold 0, getSimilar returned an entry of  *)
(* similarity 3/5, which config.similarityThreshold would not admit.       *)
ThresholdZeroWitness ==
    /\ last.op = "getSimilar"
    /\ last.found = "returned"
    /\ last.arg[3] = <<0, 1>>
    /\ \E j \in 1..Len(last.ret) : last.ret[j].similarity = <<3, 5>>
    /\ FracLess(<<3, 5>>, similarityThreshold)

(* C32: cosineSimilarity(a, b) fails with an error whenever the lengths of *)
(* a and b differ, for all vectors a and b, and returns no value in that   *)
(* case; with equal lengths it returns a value.                            *)
MismatchThrows ==
    (last.op = "cosineSimilarity")
    => /\ (Len(last.arg[1]) # Len(last.arg[2]))
          => (last.found = "threw" /\ last.ret = Error)
       /\ (Len(last.arg[1]) = Len(last.arg[2]))
          => (last.found = "returned" /\ Len(last.ret) = 2)

(* C32 witness: cosineSimilarity has failed on a vector of length 2 and a  *)
(* longer one whose first two components would give the similarity 1.      *)
MismatchThrowsWitness ==
    /\ last.op = "cosineSimilarity"
    /\ last.arg = <<<<1, 0>>, <<1, 0, 0>>>>
    /\ last.found = "threw"

(* C33: cosineSimilarity(a, b) returns exactly 0 whenever a or b has zero  *)
(* magnitude (all components 0) and whenever the dot product of two        *)
(* vectors of equal length is 0 (here: every product a[i] * b[i] is 0).    *)
ZeroForZeroMagnitude ==
    (last.op = "cosineSimilarity" /\ Len(last.arg[1]) = Len(last.arg[2]))
    => /\ (\/ \A i \in 1..Len(last.arg[1]) : last.arg[1][i] = 0
           \/ \A i \in 1..Len(last.arg[2]) : last.arg[2][i] = 0)
          => last.ret = <<0, 1>>
       /\ (\A i \in 1..Len(last.arg[1]) : last.arg[1][i] * last.arg[2][i] = 0)
          => last.ret = <<0, 1>>

====
